---- MODULE Spec2Model ----
(***************************************************************************)
(* Model of handler_registry.go (package persistentconn): the path-pattern *)
(* compiler translatePatternToRegexp, the regular-expression search that   *)
(* getHandler performs on the request path, and the handlerRegistry with   *)
(* its two operations register and getHandler.                             *)
(*                                                                         *)
(* A Go string is modelled as a sequence of one-character strings, so that *)
(* Split, HasPrefix, Join and the regexp search work on characters.        *)
(***************************************************************************)
EXTENDS Integers, Sequences, FiniteSets

\* ------------------------------------------------------------------ bounds

\* Largest number of routes the model registers.
MaxRoutes == 2

\* Largest number of segments of a probe path built for the matcher.
MaxSegs == 4

\* ------------------------------------------------------- character strings

Slash == "/"
Colon == ":"

s_empty == << >>
s_pc1 == <<"p", "c", "1">>
s_pc2 == <<"p", "c", "2">>
s_name == <<"n", "a", "m", "e">>
s_hello == <<"h", "e", "l", "l", "o">>
s_health == <<"h", "e", "a", "l", "t", "h">>
s_healthcheck == <<"h", "e", "a", "l", "t", "h", "c", "h", "e", "c", "k">>
s_users == <<"u", "s", "e", "r", "s">>
s_items == <<"i", "t", "e", "m", "s">>
s_id == <<"i", "d">>
s_42 == <<"4", "2">>
s_43 == <<"4", "3">>
s_a_b == <<"a", " ", "b">>

\* The characters the regexp class \S rejects (Go: [^\t\n\f\r ]).
Whitespace == {" ", "\t", "\n", "\f", "\r"}

Min(S) == CHOOSE x \in S : \A y \in S : x <= y

\* strings.Split(s, "/"): the parts between the separators, n+1 parts for
\* n separators.
RECURSIVE SplitFrom(_, _, _)
SplitFrom(s, i, cur) ==
  IF i > Len(s) THEN <<cur>>
  ELSE IF s[i] = Slash THEN <<cur>> \o SplitFrom(s, i + 1, << >>)
  ELSE SplitFrom(s, i + 1, Append(cur, s[i]))

Split(s) == SplitFrom(s, 1, << >>)

\* strings.Join(parts, "/")
RECURSIVE Join(_)
Join(parts) ==
  IF Len(parts) = 0 THEN << >>
  ELSE IF Len(parts) = 1 THEN parts[1]
  ELSE parts[1] \o <<Slash>> \o Join(Tail(parts))

\* strings.HasPrefix(p, ":")
HasPrefix(p) == Len(p) >= 1 /\ p[1] = Colon

\* --------------------------------------------------------- regular expression

\* A compiled expression is a sequence of atoms: a literal character, or the
\* named group (?P<name>[\S|^\/]+).
Lit(c) == [kind |-> "lit", ch |-> c, name |-> << >>]
Group(n) == [kind |-> "group", ch |-> "", name |-> n]

\* The character class [\S|^\/]: inside brackets the members are \S, '|',
\* '^' and '/'; the '^' is not first, so it does not negate.
InParamClass(c) == c \notin Whitespace \/ c \in {"|", "^", Slash}

RECURSIVE LitAtoms(_)
LitAtoms(p) == IF Len(p) = 0 THEN << >> ELSE <<Lit(p[1])>> \o LitAtoms(Tail(p))

\* One part of the pattern as line 47-50 rewrites it.
PartAtoms(p) == IF HasPrefix(p) THEN <<Group(Tail(p))>> ELSE LitAtoms(p)

RECURSIVE JoinAtoms(_)
JoinAtoms(parts) ==
  IF Len(parts) = 0 THEN << >>
  ELSE IF Len(parts) = 1 THEN PartAtoms(parts[1])
  ELSE PartAtoms(parts[1]) \o <<Lit(Slash)>> \o JoinAtoms(Tail(parts))

\* Mutant: the ":" parts are not rewritten, every part stays literal.
translatePatternLiteral(pathPattern) == LitAtoms(pathPattern)

\* translatePatternToRegexp: split on "/", rewrite the ":" parts, join with
\* "/" and compile. No anchor is added.
translatePatternToRegexp(pathPattern) == JoinAtoms(Split(pathPattern))

NoMatch == [ok |-> FALSE, caps |-> << >>, end |-> 0]

\* The longest run of class characters of s starting at pos.
RECURSIVE RunLen(_, _)
RunLen(s, pos) ==
  IF pos <= Len(s) /\ InParamClass(s[pos]) THEN 1 + RunLen(s, pos + 1) ELSE 0

\* The match of atoms k.. of re against s from position pos, as Go's
\* leftmost-first search finds it: a literal takes its character, and the
\* greedy + of a group takes the longest run of class characters that lets
\* the rest match (GroupTake tries n characters, then n - 1, ...).
RECURSIVE MatchHere(_, _, _, _), GroupTake(_, _, _, _, _)
MatchHere(re, k, s, pos) ==
  IF k > Len(re) THEN [ok |-> TRUE, caps |-> << >>, end |-> pos]
  ELSE IF re[k].kind = "lit"
    THEN IF pos <= Len(s) /\ s[pos] = re[k].ch
           THEN MatchHere(re, k + 1, s, pos + 1)
           ELSE NoMatch
    ELSE GroupTake(re, k, s, pos, RunLen(s, pos))

GroupTake(re, k, s, pos, n) ==
  IF n < 1 THEN NoMatch
  ELSE LET r == MatchHere(re, k + 1, s, pos + n)
       IN IF r.ok
            THEN [ok |-> TRUE,
                  caps |-> <<SubSeq(s, pos, pos + n - 1)>> \o r.caps,
                  end |-> r.end]
            ELSE GroupTake(re, k, s, pos, n - 1)

\* The search from start position p on: the first position with a match wins.
RECURSIVE FindFrom(_, _, _)
FindFrom(re, s, p) ==
  IF p > Len(s) + 1 THEN << >>
  ELSE LET r == MatchHere(re, 1, s, p)
       IN IF r.ok THEN <<SubSeq(s, p, r.end - 1)>> \o r.caps
          ELSE FindFrom(re, s, p + 1)

\* (*Regexp).FindStringSubmatch: the leftmost match anywhere in s, as
\* <<whole match, capture 1, ...>>, or the empty sequence (nil) when none.
FindStringSubmatch(re, s) == FindFrom(re, s, 1)

\* ------------------------------------------------------------------ handlers

\* Handler values. NoMatchingHandler is the package's default; H1 and H2 stand
\* for the functions a caller registers.
NoMatchingHandlerId == "NoMatchingHandler"
Handlers == {"H1", "H2"}

StatusNotFound == 404

\* NoMatchingHandler(re): the response and the error it returns.
NoMatchingHandler(re) ==
  [StatusCode |-> StatusNotFound,
   Body |-> "The requested path is not found.",
   Err |-> "nil"]

\* -------------------------------------------------------------------- inputs

PathOf(segs) == Join(<<s_empty>> \o segs)

pat_pc == PathOf(<<s_pc1, <<Colon>> \o s_name, s_pc2>>)
pat_pc1 == PathOf(<<s_pc1>>)
pat_health == PathOf(<<s_health>>)
pat_users == PathOf(<<s_users, <<Colon>> \o s_id, s_items>>)

path_hello == PathOf(<<s_pc1, s_hello, s_pc2>>)
path_pc1 == PathOf(<<s_pc1>>)

\* The arguments register is called with.
RegPatterns == {pat_pc, pat_pc1}
RegMethods == {<<"GET">>, <<"POST">>}

\* The requests getHandler is called with.
ReqPaths == {path_hello, path_pc1}
ReqMethods == {"GET", "POST", "DELETE"}
Requests == [Path : ReqPaths, Method : ReqMethods]

\* The goroutines that call getHandler.
Callers == {"c1", "c2"}

\* The patterns and path segments the matcher is probed with.
MatchPatterns == {pat_health, pat_users, pat_pc}
Segments == {s_empty, s_health, s_healthcheck, s_users, s_items, s_42, s_43, s_a_b}

\* --------------------------------------------------------------------- state

VARIABLES
  routes,    \* handlerRegistry.routes: the routes, in registration order
  regLog,    \* history: the arguments of the register calls so far, in order
  calls,     \* per caller: the getHandler call it is in, and what it got
  invoked,   \* history: how many times the registry's code has called a handler
  mpc,       \* matcher probe: "build", "compiled" or "matched"
  mPattern,  \* matcher probe: the pattern string
  mPath,     \* matcher probe: the path string
  mRe,       \* matcher probe: the compiled pattern
  mMatches   \* matcher probe: what FindStringSubmatch returned

vars == <<routes, regLog, calls, invoked, mpc, mPattern, mPath, mRe, mMatches>>
regVars == <<routes, regLog, calls, invoked>>
matchVars == <<mpc, mPattern, mPath, mRe, mMatches>>

NoRequest == [Path |-> << >>, Method |-> ""]

\* A caller outside getHandler that holds no result.
Idle ==
  [pc |-> "idle", req |-> NoRequest, idx |-> 0,
   handler |-> NoMatchingHandlerId, ret |-> ""]

\* --------------------------------------------------------------- the registry

\* contains(rt.Methods, req.Method): exact string membership.
contains(list, x) == \E i \in 1..Len(list) : list[i] = x

\* newRoute: compiles the pattern and keeps the handler and the methods.
newRoute(pathPattern, handler, allowedMethods) ==
  [Pattern |-> translatePatternToRegexp(pathPattern),
   Handler |-> handler,
   Methods |-> allowedMethods]

\* Mutant: the method test is dropped from the loop's condition.
RouteAcceptsPathOnly(rt, req) == Len(FindStringSubmatch(rt.Pattern, req.Path)) > 0

\* The condition of the loop body (line 66).
RouteAccepts(rt, req) ==
  Len(FindStringSubmatch(rt.Pattern, req.Path)) > 0 /\ contains(rt.Methods, req.Method)

\* getHandler run alone on the route list rts, from route i on.
RECURSIVE getHandlerFrom(_, _, _)
getHandlerFrom(rts, req, i) ==
  IF i > Len(rts) THEN NoMatchingHandlerId
  ELSE IF RouteAccepts(rts[i], req) THEN rts[i].Handler
  ELSE getHandlerFrom(rts, req, i + 1)

getHandler(rts, req) == getHandlerFrom(rts, req, 1)

\* Mutant: the new route is assigned, not appended.
registerOverwrite(rts, path, handler, allowedMethods) ==
  <<newRoute(path, handler, allowedMethods)>>

\* Mutant: the new route goes in front of the list.
registerPrepend(rts, path, handler, allowedMethods) ==
  <<newRoute(path, handler, allowedMethods)>> \o rts

\* The route list register leaves.
registerAppend(rts, path, handler, allowedMethods) ==
  Append(rts, newRoute(path, handler, allowedMethods))

\* register(path, handler, allowedMethods). The registry takes no lock:
\* callers must not register while a getHandler call runs, and in this model
\* they register only when every caller has dropped its previous result.
Register(path, handler, allowedMethods) ==
  /\ Len(routes) < MaxRoutes
  /\ \A c \in Callers : calls[c].pc = "idle"
  /\ routes' = registerAppend(routes, path, handler, allowedMethods)
  /\ regLog' = Append(regLog, [path |-> path, handler |-> handler, methods |-> allowedMethods])
  /\ UNCHANGED <<calls, invoked, matchVars>>

\* Mutant: the loop's position is kept in the registry and is not reset, so a
\* call starts one route further for every earlier call whose result is held.
StartAfterEarlierCalls(c, req) ==
  /\ calls[c].pc = "idle"
  /\ calls' = [calls EXCEPT ![c] =
       [Idle EXCEPT !.pc = "scan", !.req = req,
                    !.idx = 1 + Cardinality({d \in Callers \ {c} : calls[d].pc = "done"})]]
  /\ UNCHANGED <<routes, regLog, invoked, matchVars>>

\* Mutant: the loop's position is shared by the calls in progress, so a call
\* starts where a concurrent call stands.
StartSharedCursor(c, req) ==
  /\ calls[c].pc = "idle"
  /\ LET others == {d \in Callers \ {c} : calls[d].pc = "scan"}
     IN calls' = [calls EXCEPT ![c] =
          [Idle EXCEPT !.pc = "scan", !.req = req,
                       !.idx = IF others = {} THEN 1
                               ELSE calls[CHOOSE d \in others : TRUE].idx]]
  /\ UNCHANGED <<routes, regLog, invoked, matchVars>>

\* getHandler is entered: handler := NoMatchingHandler, and the range loop
\* starts at the first route.
Start(c, req) ==
  /\ calls[c].pc = "idle"
  /\ calls' = [calls EXCEPT ![c] =
       [Idle EXCEPT !.pc = "scan", !.req = req, !.idx = 1]]
  /\ UNCHANGED <<routes, regLog, invoked, matchVars>>

\* Mutant: a route that accepts the request sets handler and the loop goes on,
\* so the last accepting route wins.
LoopBodyLastWins(c) ==
  /\ calls[c].pc = "scan"
  /\ calls[c].idx <= Len(routes)
  /\ LET rt == routes[calls[c].idx]
     IN IF RouteAccepts(rt, calls[c].req)
          THEN calls' = [calls EXCEPT ![c].handler = rt.Handler, ![c].idx = @ + 1]
          ELSE calls' = [calls EXCEPT ![c].idx = @ + 1]
  /\ UNCHANGED <<routes, regLog, invoked, matchVars>>

\* One iteration of the loop: return the route's handler when the route
\* accepts the request, otherwise go on to the next route.
LoopBody(c) ==
  /\ calls[c].pc = "scan"
  /\ calls[c].idx <= Len(routes)
  /\ LET rt == routes[calls[c].idx]
     IN IF RouteAccepts(rt, calls[c].req)
          THEN calls' = [calls EXCEPT ![c].pc = "done", ![c].ret = rt.Handler]
          ELSE calls' = [calls EXCEPT ![c].idx = @ + 1]
  /\ UNCHANGED <<routes, regLog, invoked, matchVars>>

\* Mutant: the loop is over and nil is returned.
ReturnNil(c) ==
  /\ calls[c].pc = "scan"
  /\ calls[c].idx > Len(routes)
  /\ calls' = [calls EXCEPT ![c].pc = "done", ![c].ret = ""]
  /\ UNCHANGED <<routes, regLog, invoked, matchVars>>

\* The loop is over: return handler.
ReturnDefault(c) ==
  /\ calls[c].pc = "scan"
  /\ calls[c].idx > Len(routes)
  /\ calls' = [calls EXCEPT ![c].pc = "done", ![c].ret = calls[c].handler]
  /\ UNCHANGED <<routes, regLog, invoked, matchVars>>

\* The caller is done with the handler it got (it may have invoked it: that
\* is the caller's business) and drops it.
Release(c) ==
  /\ calls[c].pc = "done"
  /\ calls' = [calls EXCEPT ![c] = Idle]
  /\ UNCHANGED <<routes, regLog, invoked, matchVars>>

Init ==
  /\ routes = << >>
  /\ regLog = << >>
  /\ calls = [c \in Callers |-> Idle]
  /\ invoked = 0
  /\ mpc = "off"
  /\ mPattern = << >>
  /\ mPath = << >>
  /\ mRe = << >>
  /\ mMatches = << >>

Next ==
  \/ \E p \in RegPatterns, h \in Handlers, m \in RegMethods : Register(p, h, m)
  \/ \E c \in Callers, q \in Requests : Start(c, q)
  \/ \E c \in Callers : LoopBody(c)
  \/ \E c \in Callers : ReturnDefault(c)
  \/ \E c \in Callers : Release(c)

Spec == Init /\ [][Next]_vars

\* ----------------------------------------------------------- the matcher probe

NumSegs(path) == Cardinality({i \in 1..Len(path) : path[i] = Slash})

\* The probe path grows by "/" and one more segment.
AddSegment(seg) ==
  /\ mpc = "build"
  /\ NumSegs(mPath) < MaxSegs
  /\ mPath' = mPath \o <<Slash>> \o seg
  /\ UNCHANGED <<mpc, mPattern, mRe, mMatches, regVars>>

\* newRoute's call of translatePatternToRegexp.
Compile ==
  /\ mpc = "build"
  /\ mRe' = translatePatternToRegexp(mPattern)
  /\ mpc' = "compiled"
  /\ UNCHANGED <<mPattern, mPath, mMatches, regVars>>

\* getHandler's call rt.Pattern.FindStringSubmatch(req.Path).
Match ==
  /\ mpc = "compiled"
  /\ mMatches' = FindStringSubmatch(mRe, mPath)
  /\ mpc' = "matched"
  /\ UNCHANGED <<mPattern, mPath, mRe, regVars>>

MatchInit ==
  /\ routes = << >>
  /\ regLog = << >>
  /\ calls = [c \in Callers |-> Idle]
  /\ invoked = 0
  /\ mpc = "build"
  /\ mPattern \in MatchPatterns
  /\ mPath = << >>
  /\ mRe = << >>
  /\ mMatches = << >>

MatchNext ==
  \/ \E seg \in Segments : AddSegment(seg)
  \/ Compile
  \/ Match

MatchSpec == MatchInit /\ [][MatchNext]_vars

\* -------------------------------------------------------------------- claims

\* The claims' own reading of "the pattern matches the path" and "the
\* allowed-methods list contains the method".
PathMatches(rt, path) == Len(FindStringSubmatch(rt.Pattern, path)) > 0
MethodAllowed(rt, method) == method \in {rt.Methods[i] : i \in 1..Len(rt.Methods)}

\* The indices of the routes of rts that satisfy both conditions for q.
Satisfying(rts, q) ==
  {i \in 1..Len(rts) : MethodAllowed(rts[i], q.Method) /\ PathMatches(rts[i], q.Path)}

\* Caller c's getHandler call has returned.
Returned(c) == calls[c].pc = "done"

\* C1: first-match-wins. A getHandler call whose request is satisfied by some
\* route returns the handler of the lowest-index satisfying route, whatever
\* later routes satisfy it too.
C1_FirstMatchWins ==
  \A c \in Callers :
    Returned(c) =>
      LET sat == Satisfying(routes, calls[c].req)
      IN sat # {} => calls[c].ret = routes[Min(sat)].Handler

\* C1 witness: two routes with different handlers both satisfy the request
\* and the call returned the first one's handler.
C1_Witness ==
  \E c \in Callers :
    /\ Returned(c)
    /\ {1, 2} \subseteq Satisfying(routes, calls[c].req)
    /\ routes[1].Handler # routes[2].Handler
    /\ calls[c].ret = routes[1].Handler

\* C2: method gating. A route whose pattern matches the path but whose methods
\* lack the request's method is never the route selected: the scan goes on to
\* the next routes, returns the first later route that satisfies both
\* conditions, and NoMatchingHandler when there is none.
C2_MethodGating ==
  \A c \in Callers :
    Returned(c) =>
      LET q == calls[c].req
          sat == Satisfying(routes, q)
          first == IF sat = {} THEN Len(routes) + 1 ELSE Min(sat)
          \* the routes scanned before the selected one that match the path
          \* and lack the method
          gated == {i \in 1..(first - 1) :
                      ~MethodAllowed(routes[i], q.Method) /\ PathMatches(routes[i], q.Path)}
      IN /\ calls[c].ret # NoMatchingHandlerId
              => \E i \in sat : routes[i].Handler = calls[c].ret
         /\ gated # {}
              => calls[c].ret = IF sat = {} THEN NoMatchingHandlerId
                                ELSE routes[first].Handler

\* C2 witness: the first route matches the path only, the second satisfies
\* both conditions, and the call returned the second route's handler.
C2_Witness ==
  \E c \in Callers :
    /\ Returned(c)
    /\ Len(routes) >= 2
    /\ PathMatches(routes[1], calls[c].req.Path)
    /\ ~MethodAllowed(routes[1], calls[c].req.Method)
    /\ 2 \in Satisfying(routes, calls[c].req)
    /\ routes[1].Handler # routes[2].Handler
    /\ calls[c].ret = routes[2].Handler

\* C3: fallback. When no route satisfies the request (an empty registry
\* included) getHandler returns NoMatchingHandler, and NoMatchingHandler
\* invoked returns status 404, a non-empty body and a nil error.
C3_Fallback ==
  \A c \in Callers :
    (Returned(c) /\ Satisfying(routes, calls[c].req) = {})
      => /\ calls[c].ret = NoMatchingHandlerId
         /\ NoMatchingHandler(calls[c].req).StatusCode = 404
         /\ NoMatchingHandler(calls[c].req).Body # ""
         /\ NoMatchingHandler(calls[c].req).Err = "nil"

\* C3 witness: on a non-empty registry one caller got NoMatchingHandler for
\* a path that a route matches (the method is not allowed) and the other got
\* it for a path that no route matches.
C3_Witness ==
  /\ Len(routes) >= 1
  /\ \E c, d \in Callers :
       /\ Returned(c) /\ Returned(d)
       /\ calls[c].ret = NoMatchingHandlerId
       /\ calls[d].ret = NoMatchingHandlerId
       /\ \E i \in 1..Len(routes) : PathMatches(routes[i], calls[c].req.Path)
       /\ \A i \in 1..Len(routes) : ~PathMatches(routes[i], calls[d].req.Path)

\* C4: anchored matching. A pattern accepts a path only when the match spans
\* the whole path.
C4_Anchored ==
  (mpc = "matched" /\ Len(mMatches) > 0) => mMatches[1] = mPath

\* C5: single-segment capture. Every captured parameter value is non-empty
\* and holds no "/", so a path that the pattern matches from end to end has
\* as many segments as the pattern.
C5_SingleSegmentCapture ==
  (mpc = "matched" /\ Len(mMatches) > 0)
    => /\ \A i \in 2..Len(mMatches) :
            /\ Len(mMatches[i]) > 0
            /\ \A k \in 1..Len(mMatches[i]) : mMatches[i][k] # Slash
       /\ mMatches[1] = mPath => NumSegs(mPath) = NumSegs(mPattern)

\* C6: append-only registry. After n register calls the list holds exactly
\* the n routes of those calls in call order, and every step either leaves
\* the list alone or adds one route at its end.
C6_AppendOnly ==
  /\ [](/\ Len(routes) = Len(regLog)
        /\ \A i \in 1..Len(regLog) :
             routes[i] = newRoute(regLog[i].path, regLog[i].handler, regLog[i].methods))
  /\ [][\/ routes' = routes
        \/ /\ Len(routes') = Len(routes) + 1
           /\ SubSeq(routes', 1, Len(routes)) = routes]_vars

\* C6 witness: two different routes are registered and a getHandler call has
\* run over them.
C6_Witness ==
  /\ Len(routes) = 2
  /\ routes[1] # routes[2]
  /\ \E c \in Callers : Returned(c)

\* C7: determinism. Two getHandler calls on the same route list with equal
\* requests return the same handler, however many calls ran before.
C7_Determinism ==
  \A c1, c2 \in Callers :
    (Returned(c1) /\ Returned(c2) /\ calls[c1].req = calls[c2].req)
      => calls[c1].ret = calls[c2].ret

\* C7 witness: two different callers hold the result of equal requests that a
\* second route satisfied after the first route rejected them.
C7_Witness ==
  /\ Returned("c1") /\ Returned("c2")
  /\ calls["c1"].req = calls["c2"].req
  /\ Len(routes) >= 2
  /\ Satisfying(routes, calls["c1"].req) = {2}
  /\ calls["c1"].ret = routes[2].Handler

\* C8: getHandler is read-only. No step of a caller changes the route list,
\* a call in progress keeps its request and invokes no handler, and a call
\* that ran interleaved with others returns what getHandler returns alone.
C8_ReadOnlyDispatch ==
  /\ [](\A c \in Callers :
          Returned(c) => calls[c].ret = getHandler(routes, calls[c].req))
  /\ [][\A c \in Callers :
          calls[c].pc = "scan"
            => /\ routes' = routes
               /\ calls'[c].req = calls[c].req
               /\ invoked' = invoked]_vars

\* C8 witness: both callers are inside getHandler at once, past the first
\* route, with different requests.
C8_Witness ==
  /\ calls["c1"].pc = "scan" /\ calls["c2"].pc = "scan"
  /\ calls["c1"].idx = 2 /\ calls["c2"].idx = 2
  /\ calls["c1"].req # calls["c2"].req
  /\ Len(routes) >= 2

\* The two register calls of the scenario.
ScenarioLog ==
  <<[path |-> pat_pc, handler |-> "H1", methods |-> <<"GET">>],
    [path |-> pat_pc, handler |-> "H2", methods |-> <<"POST">>]>>

\* C9: scenario. After register("/pc1/:name/pc2", H1, ["GET"]) and
\* register("/pc1/:name/pc2", H2, ["POST"]), path "/pc1/hello/pc2" gets H1 for
\* GET, H2 for POST and NoMatchingHandler for DELETE.
C9_Scenario ==
  regLog = ScenarioLog =>
    \A c \in Callers :
      (Returned(c) /\ calls[c].req.Path = path_hello)
        => calls[c].ret = CASE calls[c].req.Method = "GET" -> "H1"
                            [] calls[c].req.Method = "POST" -> "H2"
                            [] OTHER -> NoMatchingHandlerId

\* C9 witness: under the scenario's registry one caller got H1 for GET and
\* the other got H2 for POST.
C9_Witness ==
  /\ regLog = ScenarioLog
  /\ \E c, d \in Callers :
       /\ Returned(c) /\ Returned(d)
       /\ calls[c].req = [Path |-> path_hello, Method |-> "GET"]
       /\ calls[c].ret = "H1"
       /\ calls[d].req = [Path |-> path_hello, Method |-> "POST"]
       /\ calls[d].ret = "H2"

\* C10: stability under later registration. A request that some registered
\* route satisfies keeps its handler across every later register call.
C10_StableUnderRegistration ==
  [][routes' # routes =>
       \A q \in Requests :
         Satisfying(routes, q) # {} => getHandler(routes', q) = getHandler(routes, q)]_vars

\* C10 witness: the second register call added a route that satisfies, with
\* another handler, a request the first route already satisfied, and that also
\* satisfies a request the first route did not; the first request still gets
\* the first route's handler and the second now gets the new route's.
C10_Witness ==
  /\ Len(routes) = 2
  /\ routes[1].Handler # routes[2].Handler
  /\ \E q1, q2 \in Requests :
       /\ {1, 2} \subseteq Satisfying(routes, q1)
       /\ getHandler(routes, q1) = routes[1].Handler
       /\ Satisfying(routes, q2) = {2}
       /\ getHandler(routes, q2) = routes[2].Handler

====
